---- MODULE Spec2Model ----
(***************************************************************************)
(* Model of recruitment_flow_api.core.redis (RateLimiter, get_redis) and   *)
(* recruitment_flow_api.core.database (get_db_session,                     *)
(* execute_in_transaction, execute_with_retry, and the connection pool     *)
(* init_db configures).                                                    *)
(*                                                                         *)
(* Every `await` of the source is a suspension point: one action of the    *)
(* model is the code that runs between two suspension points.              *)
(***************************************************************************)
EXTENDS Integers, Sequences, FiniteSets, TLC

\* ------------------------------------------------------------------ bounds
MaxRequests == 2
MaxWindow == 2
MaxCalls == 4
NumCallers == 2
MaxCancels == 2
MaxRetries == 3
MaxPoolSize == 1
MaxOverflow == 1
MaxPoolTimeout == 2

Identifiers == {"u1", "u2"}
Callers == 1..NumCallers
Tasks == {"t1", "t2"}
Sessions == {"s1", "s2", "s3"}
Values == {"v1", "v2"}
\* Exception instances the unit of work can raise
WorkErrors == {"E1", "E2"}
\* the Exception session.commit() / session.rollback() raises when it fails
CommitError == "CommitError"
RollbackError == "RollbackError"
\* the Exception raised when no session can be had (init_db or the session
\* factory raises, e.g. sqlalchemy.exc.TimeoutError)
AcquireError == "TimeoutError"
\* asyncio.CancelledError: a BaseException, not an Exception
CancelledError == "CancelledError"
NoExc == "none"
NoOutcome == [kind |-> "none"]

\* a reply of the store is a sequence: <<>> is nil (Python None), <<n>> the value n
Nil == <<>>
NoRet == [op |-> "none"]
NoPre == [reset |-> FALSE, rejects |-> FALSE]

\* the engines and Redis clients a behaviour may create
MaxEngines == 2
MaxClients == 2
\* Python's None in a module global that otherwise holds an engine / client
None == 0
NoObject == [state |-> "none", by |-> "nobody"]

VARIABLES
    \* ---- redis.py
    redis_client,     \* module global: None, or the client init_redis created
    clients,          \* the Redis clients created so far: state and creator of each
    store,            \* the counter store: key -> [count, ttl]; count 0 = no key, ttl 0 = no expiry
    max_requests,     \* policy argument of the calls of this behaviour
    window_seconds,   \* policy argument of the calls of this behaviour
    budget,           \* per caller: the calls it may still start in this behaviour
    pc,               \* per caller: where its coroutine is suspended
    ident,            \* per caller: the identifier argument of the call in progress
    current_count,    \* per caller: local current_count of is_allowed / get_remaining
    ret,              \* per caller: what its last finished call returned
    \* ---- history of the rate limiter (not read by the code)
    completed,        \* per identifier: is_allowed calls finished
    admitted,         \* per identifier: is_allowed calls that returned True
    expiredOnce,      \* per identifier: the store has expired its key at least once
    elapsed,          \* per identifier: seconds since the last admitted write (capped)
    exhausted,        \* per identifier: the count reached max_requests since the key was created
    rejectedSince,    \* per identifier: a call was rejected since the last admitted write
    pre,              \* per caller: what held when the call in progress started
    faulted,          \* per caller: the store failed in its current or last call
    \* ---- database.py
    engine,           \* module global: None, or the engine init_db created
    AsyncSessionLocal,\* module global: None, or the factory init_db bound to an engine
    engines,          \* the engines created so far: state and creator of each
    tpc,              \* per task: where execute_in_transaction is suspended
    session,          \* per task: its AsyncSession: calls of commit / rollback / close that completed
    result,           \* per task: local `result` of execute_in_transaction
    pending,          \* per task: the exception propagating in the task
    closeTask,        \* per task: the task AsyncSession.__aexit__ creates to close the session
    outcome,          \* per task: what the caller of execute_in_transaction observed
    \* ---- history of the executor (not read by the code)
    work,             \* per task: what the unit of work did
    cancels,          \* per task: cancellations delivered to it
    cleanupFailed,    \* per task: a commit or rollback of its session raised
    \* ---- execute_with_retry
    max_retries,      \* argument max_retries
    plan,             \* what the k-th invocation of func does (fixed for the behaviour)
    func,             \* argument func: "plan" (an opaque function) or "execute_in_transaction"
    entered,          \* coroutines of execute_in_transaction that func(*args) started
    rpc,              \* where execute_with_retry is suspended
    attempt,          \* loop variable `attempt`
    last_exception,   \* local `last_exception`
    invocations,      \* history: invocations of func started
    sleeps,           \* history: the durations passed to asyncio.sleep, in order
    routcome,         \* what the caller of execute_with_retry observed
    \* ---- the connection pool of the engine init_db creates
    pool_size,        \* create_async_engine(pool_size=...)
    max_overflow,     \* create_async_engine(max_overflow=...)
    pool_timeout,     \* create_async_engine(pool_timeout=...), seconds
    checkedout,       \* connections of the pool that are checked out
    ppc,              \* per session: "idle", "wait", "hold" or "failed"
    waited,           \* per session: seconds it has waited for a connection
    \* ---- main.py's lifespan and the tasks beside it
    lpc,              \* per process: where the lifespan / the task is suspended
    target,           \* per process: the engine or client it awaits the closing of
    ops,              \* per task: the calls it may still start in this behaviour
    \* ---- history of the lifecycle (not read by the code)
    trail,            \* the calls of the lifespan that returned, in order
    staleSession,     \* a session was created from an engine already disposed
    staleClient,      \* get_redis returned a client already closed
    dropped,          \* kinds of objects whose reference was cleared before they were closed
    \* ---- DatabaseManager
    dm_session,       \* self.session of the instance: None, or a session
    dmSessions,       \* the sessions __aenter__ created: calls of commit / rollback / close made on each
    dmpc,             \* per task: where its `async with` is suspended
    dmTarget,         \* per task: the session whose method it awaits
    \* ---- history of the DatabaseManager (not read by the code)
    dmOpened,         \* per task: the session its __aenter__ returned
    dmBody,           \* per task: how the body of its `async with` ended
    dmOutcome         \* per task: what the caller of the `async with` observed

rlVars == <<redis_client, clients, store, max_requests, window_seconds, budget, pc, ident,
            current_count, ret, completed, admitted, expiredOnce, elapsed,
            exhausted, rejectedSince, pre, faulted>>

txVars == <<engine, AsyncSessionLocal, engines, tpc, session, result, pending, closeTask,
            outcome, work, cancels, cleanupFailed>>

rtVars == <<max_retries, plan, func, entered, rpc, attempt, last_exception, invocations, sleeps,
            routcome>>

poolVars == <<pool_size, max_overflow, pool_timeout, checkedout, ppc, waited>>

lcVars == <<lpc, target, ops, trail, staleSession, staleClient, dropped>>

dmVars == <<dm_session, dmSessions, dmpc, dmTarget, dmOpened, dmBody, dmOutcome>>

vars == <<rlVars, txVars, rtVars, poolVars, lcVars, dmVars>>

notRL == <<txVars, rtVars, poolVars, lcVars, dmVars>>
notTx == <<rlVars, rtVars, poolVars, lcVars, dmVars>>
notRetry == <<rlVars, txVars, poolVars, lcVars, dmVars>>
notPool == <<rlVars, txVars, rtVars, lcVars, dmVars>>

\* ------------------------------------------------------------ counter store
redis_key_prefix == "rate_limit"

\* variant of Key that leaves the identifier out of the key
KeyShared(identifier) == <<redis_key_prefix, "u1">>

\* key = f"{self.redis_key_prefix}:{identifier}"
Key(identifier) == <<redis_key_prefix, identifier>>

Keys == {Key(i) : i \in Identifiers}

NoKey == [count |-> 0, ttl |-> 0]

\* redis.get(key): nil when the key does not exist
RedisGet(s, key) == IF s[key].count = 0 THEN Nil ELSE <<s[key].count>>

\* current_count = int(current) if current else 0
ToCount(current) == IF current = Nil THEN 0 ELSE current[1]

\* pipe.incr(key): a missing key is created with value 1 and no expiry
Incr(s, key) == [s EXCEPT ![key].count = @ + 1]

\* pipe.expire(key, window_seconds): only an existing key gets the expiry
Expire(s, key, w) == IF s[key].count = 0 THEN s ELSE [s EXCEPT ![key].ttl = w]

\* variant of PipelineExecute that forgets pipe.expire
PipelineNoExpire(s, key, w) == Incr(s, key)

\* pipe.incr(key); pipe.expire(key, window_seconds); await pipe.execute()
\* (a MULTI/EXEC transaction: both commands take effect in one step)
PipelineExecute(s, key, w) == Expire(Incr(s, key), key, w)

\* variant of Rejects with > for >=
RejectsAbove(count, max) == count > max

\* if current_count >= max_requests: return False
Rejects(count, max) == count >= max

\* variant of Remaining without the max(0, ...)
RemainingUnclamped(count, max) == max - count

\* max(0, max_requests - current_count)
Remaining(count, max) == IF max - count > 0 THEN max - count ELSE 0

\* one second passes in the store: every expiry comes one second closer and a
\* key whose expiry is reached is deleted
Expired(s, key) == s[key].ttl = 1

AfterSecond(s) ==
    [k \in Keys |->
        IF s[k].ttl = 0 THEN s[k]
        ELSE IF s[k].ttl = 1 THEN NoKey
        ELSE [s[k] EXCEPT !.ttl = @ - 1]]

\* ------------------------------------------------------------ rate limiter
InitRL(calls, maxes, windows) ==
    /\ redis_client = None
    /\ clients = [n \in 1..MaxClients |-> NoObject]
    /\ store = [k \in Keys |-> NoKey]
    /\ max_requests \in maxes
    /\ window_seconds \in windows
    /\ budget = calls
    /\ pc = [p \in Callers |-> "idle"]
    /\ ident = [p \in Callers |-> "u1"]
    /\ current_count = [p \in Callers |-> 0]
    /\ ret = [p \in Callers |-> NoRet]
    /\ completed = [i \in Identifiers |-> 0]
    /\ admitted = [i \in Identifiers |-> 0]
    /\ expiredOnce = [i \in Identifiers |-> FALSE]
    /\ elapsed = [i \in Identifiers |-> 0]
    /\ exhausted = [i \in Identifiers |-> FALSE]
    /\ rejectedSince = [i \in Identifiers |-> FALSE]
    /\ pre = [p \in Callers |-> NoPre]
    /\ faulted = [p \in Callers |-> FALSE]

policy == <<max_requests, window_seconds>>
history == <<completed, admitted, expiredOnce, elapsed, exhausted, rejectedSince>>

\* a caller enters is_allowed(identifier, max_requests, window_seconds)
CallIsAllowed(p, i) ==
    /\ pc[p] = "idle"
    /\ budget[p] > 0
    /\ budget' = [budget EXCEPT ![p] = @ - 1]
    /\ pc' = [pc EXCEPT ![p] = "ia_redis"]
    /\ ident' = [ident EXCEPT ![p] = i]
    /\ ret' = [ret EXCEPT ![p] = NoRet]
    /\ pre' = [pre EXCEPT ![p] =
                  [reset |-> exhausted[i] /\ elapsed[i] >= window_seconds,
                   rejects |-> rejectedSince[i]]]
    /\ faulted' = [faulted EXCEPT ![p] = FALSE]
    /\ UNCHANGED <<redis_client, clients, store, current_count, policy, notRL, history>>

\* a caller enters get_remaining(identifier, max_requests)
CallGetRemaining(p, i) ==
    /\ pc[p] = "idle"
    /\ budget[p] > 0
    /\ budget' = [budget EXCEPT ![p] = @ - 1]
    /\ pc' = [pc EXCEPT ![p] = "gr_redis"]
    /\ ident' = [ident EXCEPT ![p] = i]
    /\ ret' = [ret EXCEPT ![p] = NoRet]
    /\ pre' = [pre EXCEPT ![p] = NoPre]
    /\ faulted' = [faulted EXCEPT ![p] = FALSE]
    /\ UNCHANGED <<redis_client, clients, store, current_count, policy, notRL, history>>

\* the objects of a table that have been created, and whether one more fits
Created(objs) == {n \in DOMAIN objs : objs[n].state # "none"}
NewId(objs) == Cardinality(Created(objs)) + 1
CanCreate(objs) == NewId(objs) \in DOMAIN objs

\* init_redis(): if redis_client is not None: return; else the pool and the
\* client are created (no await, no connection is opened).  c, cs: the global
\* and the clients before the call; by: the caller.
InitRedis(c, cs, by) ==
    IF c # None THEN [redis_client |-> c, clients |-> cs]
    ELSE [redis_client |-> NewId(cs),
          clients |-> [cs EXCEPT ![NewId(cs)] = [state |-> "live", by |-> by]]]

\* get_redis(): if redis_client is None: await init_redis(); return redis_client
GetRedisInit(by) ==
    IF redis_client = None THEN InitRedis(redis_client, clients, by)
    ELSE [redis_client |-> redis_client, clients |-> clients]

\* redis = await get_redis(): the client is created on first use
GetRedis(p) ==
    /\ pc[p] \in {"ia_redis", "gr_redis"}
    /\ redis_client = None => CanCreate(clients)
    /\ redis_client' = GetRedisInit("get_redis").redis_client
    /\ clients' = GetRedisInit("get_redis").clients
    /\ pc' = [pc EXCEPT ![p] = IF pc[p] = "ia_redis" THEN "ia_get" ELSE "gr_get"]
    /\ UNCHANGED <<store, ident, current_count, ret, budget, pre, faulted, policy, notRL,
                   history>>

\* variant of OnStoreError that fails open: the error is swallowed and the
\* call answers as if the request were within the limit
FailOpen(call) == [op |-> call, val |-> TRUE]

\* what a call observes when an await on the store raises: no try/except
\* surrounds the awaits, the error leaves the method
OnStoreError(call) == [op |-> "raised", call |-> call, val |-> "ConnectionError"]

\* the is_allowed call of p returns val
ReturnIsAllowed(p, val, s) ==
    LET i == ident[p] IN
    /\ pc' = [pc EXCEPT ![p] = "idle"]
    /\ completed' = [completed EXCEPT ![i] = @ + 1]
    /\ admitted' = [admitted EXCEPT ![i] = IF val THEN @ + 1 ELSE @]
    /\ ret' = [ret EXCEPT ![p] =
                  [op |-> "is_allowed", id |-> i, val |-> val,
                   idx |-> completed[i] + 1, count |-> s[Key(i)].count,
                   pre |-> pre[p]]]

\* variant of IsAllowedGet, the increment-first limiter:
\* count = INCR key; EXPIRE key w; return count <= max
IsAllowedGetIncrFirst(p) ==
    LET i == ident[p]
        s == PipelineExecute(store, Key(i), window_seconds)
        c == s[Key(i)].count
    IN  /\ pc[p] = "ia_get"
        /\ current_count' = [current_count EXCEPT ![p] = c]
        /\ store' = s
        /\ ReturnIsAllowed(p, c <= max_requests, s)
        /\ UNCHANGED <<redis_client, clients, ident, budget, pre, faulted, policy, notRL,
                       expiredOnce, elapsed, rejectedSince, exhausted>>

\* current = await redis.get(key); current_count = ...;
\* if current_count >= max_requests: return False
IsAllowedGet(p) ==
    LET i == ident[p]
        c == ToCount(RedisGet(store, Key(i)))
    IN  /\ pc[p] = "ia_get"
        /\ current_count' = [current_count EXCEPT ![p] = c]
        /\ IF Rejects(c, max_requests)
           THEN /\ ReturnIsAllowed(p, FALSE, store)
                /\ rejectedSince' = [rejectedSince EXCEPT ![i] = TRUE]
                /\ exhausted' = [exhausted EXCEPT ![i] = TRUE]
           ELSE /\ pc' = [pc EXCEPT ![p] = "ia_pipe"]
                /\ UNCHANGED <<ret, completed, admitted, rejectedSince, exhausted>>
        /\ UNCHANGED <<redis_client, clients, store, ident, budget, pre, faulted, policy, notRL,
                       expiredOnce, elapsed>>

\* pipe = redis.pipeline(); pipe.incr(key); pipe.expire(key, window_seconds);
\* await pipe.execute(); return True
IsAllowedPipe(p) ==
    LET i == ident[p]
        s == PipelineExecute(store, Key(i), window_seconds)
    IN  /\ pc[p] = "ia_pipe"
        /\ store' = s
        /\ ReturnIsAllowed(p, TRUE, s)
        /\ elapsed' = [elapsed EXCEPT ![i] = 0]
        /\ rejectedSince' = [rejectedSince EXCEPT ![i] = FALSE]
        /\ exhausted' = [exhausted EXCEPT ![i] = s[Key(i)].count >= max_requests]
        /\ UNCHANGED <<redis_client, clients, ident, current_count, budget, pre, faulted, policy,
                       notRL, expiredOnce>>

\* variant of GetRemainingGet that reads with GETDEL: the read consumes the key
GetRemainingGetDel(p, m) ==
    LET i == ident[p]
        c == ToCount(RedisGet(store, Key(i)))
    IN  /\ pc[p] = "gr_get"
        /\ current_count' = [current_count EXCEPT ![p] = c]
        /\ pc' = [pc EXCEPT ![p] = "idle"]
        /\ store' = [store EXCEPT ![Key(i)] = NoKey]
        /\ ret' = [ret EXCEPT ![p] =
                      [op |-> "get_remaining", id |-> i,
                       val |-> Remaining(c, m), max |-> m,
                       admitted |-> admitted[i], fresh |-> ~expiredOnce[i]]]
        /\ UNCHANGED <<redis_client, clients, ident, budget, pre, faulted, policy, notRL,
                       history>>

\* current = await redis.get(key); ...; return max(0, max_requests - current_count)
\* m is the max_requests argument of this call of get_remaining: the code
\* reads it here for the first time
GetRemainingGet(p, m) ==
    LET i == ident[p]
        c == ToCount(RedisGet(store, Key(i)))
    IN  /\ pc[p] = "gr_get"
        /\ current_count' = [current_count EXCEPT ![p] = c]
        /\ pc' = [pc EXCEPT ![p] = "idle"]
        /\ ret' = [ret EXCEPT ![p] =
                      [op |-> "get_remaining", id |-> i,
                       val |-> Remaining(c, m), max |-> m,
                       admitted |-> admitted[i], fresh |-> ~expiredOnce[i]]]
        /\ UNCHANGED <<redis_client, clients, store, ident, budget, pre, faulted, policy, notRL,
                       history>>

\* variant of LostReply for a pipeline that is no transaction: the connection
\* broke between the two commands
LostReplyIncrOnly(s, key, w) == Incr(s, key)

\* what the store holds when the connection breaks after pipe.execute() sent
\* its MULTI ... EXEC block: the store ran the whole block
LostReply(s, key, w) == PipelineExecute(s, key, w)

\* the store is unavailable: the await the call is suspended in (get_redis,
\* redis.get or pipe.execute) raises.  Neither method has a handler.  applied:
\* the connection broke after the store ran the MULTI/EXEC block and before
\* its reply arrived.
StoreFails(p, applied) ==
    LET i == ident[p]
        s == IF applied THEN LostReply(store, Key(i), window_seconds) ELSE store
        call == IF pc[p] \in {"gr_redis", "gr_get"} THEN "get_remaining" ELSE "is_allowed"
    IN  /\ pc[p] \in {"ia_redis", "ia_get", "ia_pipe", "gr_redis", "gr_get"}
        /\ applied => pc[p] = "ia_pipe"
        \* get_redis can raise only where it creates the client
        /\ pc[p] \in {"ia_redis", "gr_redis"} => redis_client = None
        /\ store' = s
        /\ faulted' = [faulted EXCEPT ![p] = TRUE]
        /\ pc' = [pc EXCEPT ![p] = "idle"]
        /\ ret' = [ret EXCEPT ![p] = OnStoreError(call)]
        /\ elapsed' = [elapsed EXCEPT ![i] = IF applied THEN 0 ELSE @]
        /\ exhausted' = [exhausted EXCEPT ![i] =
                             IF applied THEN s[Key(i)].count >= max_requests ELSE @]
        /\ UNCHANGED <<redis_client, clients, ident, current_count, budget, pre, policy, notRL,
                       completed, admitted, expiredOnce, rejectedSince>>

\* one second passes (a step only when it changes something)
Tick ==
    /\ store' = AfterSecond(store)
    /\ expiredOnce' = [i \in Identifiers |-> expiredOnce[i] \/ Expired(store, Key(i))]
    /\ elapsed' = [i \in Identifiers |->
                      IF admitted[i] > 0 /\ elapsed[i] < MaxWindow
                      THEN elapsed[i] + 1 ELSE elapsed[i]]
    /\ <<store', elapsed'>> # <<store, elapsed>>
    /\ UNCHANGED <<redis_client, clients, pc, ident, current_count, ret, budget, pre, faulted, policy,
                   notRL, completed, admitted, exhausted, rejectedSince>>

NextRL ==
    \/ \E p \in Callers, i \in Identifiers : CallIsAllowed(p, i)
    \/ \E p \in Callers, i \in Identifiers : CallGetRemaining(p, i)
    \/ \E p \in Callers : GetRedis(p)
    \/ \E p \in Callers : IsAllowedGet(p)
    \/ \E p \in Callers : IsAllowedPipe(p)
    \/ \E p \in Callers, m \in 1..MaxRequests : GetRemainingGet(p, m)
    \/ Tick

\* one whole call is_allowed(i, max_requests, window_seconds) on the store s
\* with no other caller between its read and its pipeline: the store it leaves
\* and the value it returns
IsAllowedSeq(s, i) ==
    IF Rejects(ToCount(RedisGet(s, Key(i))), max_requests)
    THEN [store |-> s, val |-> FALSE]
    ELSE [store |-> PipelineExecute(s, Key(i), window_seconds), val |-> TRUE]

RECURSIVE AdmittedBy(_, _, _)
\* the number of calls admitted when one caller runs the schedule sch from its
\* k-th step on the store s: "call" is one call of is_allowed for u1, "tick"
\* one second
AdmittedBy(s, sch, k) ==
    IF k > Len(sch) THEN 0
    ELSE IF sch[k] = "tick" THEN AdmittedBy(AfterSecond(s), sch, k + 1)
    ELSE LET r == IsAllowedSeq(s, "u1")
         IN  (IF r.val THEN 1 ELSE 0) + AdmittedBy(r.store, sch, k + 1)

\* the rate limiter with a counter store that can fail
NextRLFaults ==
    \/ NextRL
    \/ \E p \in Callers, applied \in BOOLEAN : StoreFails(p, applied)

\* -------------------------------------------------- transactional executor
InitTx(tasks) ==
    /\ engine = None
    /\ AsyncSessionLocal = None
    /\ engines = [n \in 1..MaxEngines |-> NoObject]
    /\ tpc = [t \in Tasks |-> IF t \in tasks THEN "start" ELSE "off"]
    /\ session = [t \in Tasks |-> [commits |-> 0, rollbacks |-> 0, closes |-> 0]]
    /\ result = [t \in Tasks |-> NoExc]
    /\ pending = [t \in Tasks |-> NoExc]
    /\ closeTask = [t \in Tasks |-> "none"]
    /\ outcome = [t \in Tasks |-> NoOutcome]
    /\ work = [t \in Tasks |-> NoOutcome]
    /\ cancels = [t \in Tasks |-> 0]
    /\ cleanupFailed = [t \in Tasks |-> FALSE]

\* the suspension points of a task that holds a session
Suspended == {"work", "commit", "eit_rollback", "gds_rollback", "gds_close", "sess_exit"}

\* the task got a session: it is inside the async with block, or it has left
\* it (only a failed acquisition ends a call with AcquireError)
Acquired(t) ==
    \/ tpc[t] \in Suspended
    \/ tpc[t] = "done" /\ outcome[t].val # AcquireError

\* what the caller observes when the coroutine ends with exception exc in
\* flight (none: `return result`)
Observed(exc, res) ==
    IF exc = NoExc THEN [kind |-> "returned", val |-> res]
    ELSE [kind |-> "raised", val |-> exc]

\* variant of InitDb that creates an engine on every call
InitDbAlways(e, f, es, by) ==
    IF ~CanCreate(es) THEN [engine |-> e, AsyncSessionLocal |-> f, engines |-> es]
    ELSE [engine |-> NewId(es), AsyncSessionLocal |-> NewId(es),
          engines |-> [es EXCEPT ![NewId(es)] = [state |-> "live", by |-> by]]]

\* init_db(): if engine is not None: return; else the engine and the session
\* factory bound to it are created (no await).  e, f, es: the globals and the
\* engines before the call; by: the caller.
InitDb(e, f, es, by) ==
    IF e # None THEN [engine |-> e, AsyncSessionLocal |-> f, engines |-> es]
    ELSE [engine |-> NewId(es), AsyncSessionLocal |-> NewId(es),
          engines |-> [es EXCEPT ![NewId(es)] = [state |-> "live", by |-> by]]]

\* if AsyncSessionLocal is None: await init_db()  (get_db, get_db_session and
\* DatabaseManager.__aenter__ start with it)
GetDbSessionInit(by) ==
    IF AsyncSessionLocal = None THEN InitDb(engine, AsyncSessionLocal, engines, by)
    ELSE [engine |-> engine, AsyncSessionLocal |-> AsyncSessionLocal, engines |-> engines]

\* async with get_db_session() as session:  (get_db_session up to its yield)
\*   if AsyncSessionLocal is None: await init_db()
\*   async with AsyncSessionLocal() as session: try: yield session
\* init_db holds no await: it runs to its end with the caller.
Acquire(t) ==
    /\ tpc[t] = "start"
    /\ engine = None => CanCreate(engines)
    /\ GetDbSessionInit("get_db_session").AsyncSessionLocal # None
    /\ engine' = GetDbSessionInit("get_db_session").engine
    /\ AsyncSessionLocal' = GetDbSessionInit("get_db_session").AsyncSessionLocal
    /\ engines' = GetDbSessionInit("get_db_session").engines
    /\ tpc' = [tpc EXCEPT ![t] = "work"]
    /\ UNCHANGED <<session, result, pending, closeTask, outcome, work, cancels,
                   cleanupFailed, notTx>>

\* async with get_db_session() raises before its yield: init_db raises (the
\* globals stay None), or the session factory does (init_db has run).  Nothing
\* of execute_in_transaction catches it: no session exists, func is not awaited.
AcquireFails(t, inInit) ==
    /\ tpc[t] = "start"
    /\ inInit => AsyncSessionLocal = None
    /\ ~inInit /\ engine = None => CanCreate(engines)
    /\ engine' = IF inInit THEN engine ELSE GetDbSessionInit("get_db_session").engine
    /\ AsyncSessionLocal' = IF inInit THEN AsyncSessionLocal
                            ELSE GetDbSessionInit("get_db_session").AsyncSessionLocal
    /\ engines' = IF inInit THEN engines ELSE GetDbSessionInit("get_db_session").engines
    /\ pending' = [pending EXCEPT ![t] = AcquireError]
    /\ tpc' = [tpc EXCEPT ![t] = "done"]
    /\ outcome' = [outcome EXCEPT ![t] = Observed(AcquireError, result[t])]
    /\ UNCHANGED <<session, result, closeTask, work, cancels, cleanupFailed, notTx>>

\* result = await func(session, ...) returns v
WorkReturns(t, v) ==
    /\ tpc[t] = "work"
    /\ result' = [result EXCEPT ![t] = v]
    /\ work' = [work EXCEPT ![t] = [kind |-> "returned", val |-> v]]
    /\ tpc' = [tpc EXCEPT ![t] = "commit"]
    /\ UNCHANGED <<engine, AsyncSessionLocal, engines, session, pending, closeTask, outcome,
                   cancels, cleanupFailed, notTx>>

\* result = await func(session, ...) raises the Exception e:
\* caught by `except Exception` of execute_in_transaction
WorkRaises(t, e) ==
    /\ tpc[t] = "work"
    /\ pending' = [pending EXCEPT ![t] = e]
    /\ work' = [work EXCEPT ![t] = [kind |-> "raised", val |-> e]]
    /\ tpc' = [tpc EXCEPT ![t] = "eit_rollback"]
    /\ UNCHANGED <<engine, AsyncSessionLocal, engines, session, result, closeTask, outcome,
                   cancels, cleanupFailed, notTx>>

\* await session.commit() completes; `return result` leaves the
\* `async with get_db_session()` block normally: the generator resumes after
\* its yield and runs its finally clause
CommitOk(t) ==
    /\ tpc[t] = "commit"
    /\ session' = [session EXCEPT ![t].commits = @ + 1]
    /\ tpc' = [tpc EXCEPT ![t] = "gds_close"]
    /\ UNCHANGED <<engine, AsyncSessionLocal, engines, result, pending, closeTask, outcome,
                   work, cancels, cleanupFailed, notTx>>

\* await session.commit() raises: caught by `except Exception` of
\* execute_in_transaction
CommitFails(t) ==
    /\ tpc[t] = "commit"
    /\ pending' = [pending EXCEPT ![t] = CommitError]
    /\ cleanupFailed' = [cleanupFailed EXCEPT ![t] = TRUE]
    /\ tpc' = [tpc EXCEPT ![t] = "eit_rollback"]
    /\ UNCHANGED <<engine, AsyncSessionLocal, engines, session, result, closeTask, outcome,
                   work, cancels, notTx>>

\* execute_in_transaction: except Exception: await session.rollback(); raise
\* The exception leaves the async with block and is thrown into get_db_session
\* at its yield, where `except Exception` catches it.  ok = FALSE: the rollback
\* itself raises, and its exception propagates instead.
EitRollback(t, ok) ==
    /\ tpc[t] = "eit_rollback"
    /\ IF ok
       THEN /\ session' = [session EXCEPT ![t].rollbacks = @ + 1]
            /\ UNCHANGED <<pending, cleanupFailed>>
       ELSE /\ pending' = [pending EXCEPT ![t] = RollbackError]
            /\ cleanupFailed' = [cleanupFailed EXCEPT ![t] = TRUE]
            /\ UNCHANGED session
    /\ tpc' = [tpc EXCEPT ![t] = "gds_rollback"]
    /\ UNCHANGED <<engine, AsyncSessionLocal, engines, result, closeTask, outcome, work,
                   cancels, notTx>>

\* get_db_session: except Exception: await session.rollback(); raise
\* then the finally clause runs
GdsRollback(t, ok) ==
    /\ tpc[t] = "gds_rollback"
    /\ IF ok
       THEN /\ session' = [session EXCEPT ![t].rollbacks = @ + 1]
            /\ UNCHANGED <<pending, cleanupFailed>>
       ELSE /\ pending' = [pending EXCEPT ![t] = RollbackError]
            /\ cleanupFailed' = [cleanupFailed EXCEPT ![t] = TRUE]
            /\ UNCHANGED session
    /\ tpc' = [tpc EXCEPT ![t] = "gds_close"]
    /\ UNCHANGED <<engine, AsyncSessionLocal, engines, result, closeTask, outcome, work,
                   cancels, notTx>>

\* get_db_session: finally: await session.close()
\* then the `async with AsyncSessionLocal()` block is left:
\* AsyncSession.__aexit__ creates a task running self.close() and awaits it
\* shielded
GdsClose(t) ==
    /\ tpc[t] = "gds_close"
    /\ session' = [session EXCEPT ![t].closes = @ + 1]
    /\ closeTask' = [closeTask EXCEPT ![t] = "scheduled"]
    /\ tpc' = [tpc EXCEPT ![t] = "sess_exit"]
    /\ UNCHANGED <<engine, AsyncSessionLocal, engines, result, pending, outcome, work,
                   cancels, cleanupFailed, notTx>>

\* the task created by AsyncSession.__aexit__ runs self.close(); it is its own
\* task, so a cancellation of the caller does not reach it
CloseTaskRun(t) ==
    /\ closeTask[t] = "scheduled"
    /\ session' = [session EXCEPT ![t].closes = @ + 1]
    /\ closeTask' = [closeTask EXCEPT ![t] = "done"]
    /\ UNCHANGED <<engine, AsyncSessionLocal, engines, tpc, result, pending, outcome, work,
                   cancels, cleanupFailed, notTx>>

\* await asyncio.shield(task) completes; the exception in flight, if any,
\* propagates out of both context managers to the caller
Finish(t) ==
    /\ tpc[t] = "sess_exit"
    /\ closeTask[t] = "done"
    /\ tpc' = [tpc EXCEPT ![t] = "done"]
    /\ outcome' = [outcome EXCEPT ![t] = Observed(pending[t], result[t])]
    /\ UNCHANGED <<engine, AsyncSessionLocal, engines, session, result, pending, closeTask,
                   work, cancels, cleanupFailed, notTx>>

\* variant of OnCancel for a session held without a context manager: nothing
\* runs on the way out
OnCancelUnscoped(at) == "done"

\* where a CancelledError raised by the await at `at` is handled.  It is not an
\* Exception: both `except Exception` clauses are skipped, the finally clause of
\* get_db_session runs, then AsyncSession.__aexit__; raised by the shielded
\* await of __aexit__, it reaches the caller.
OnCancel(at) ==
    IF at = "sess_exit" THEN "done"
    ELSE IF at = "gds_close" THEN "sess_exit"
    ELSE "gds_close"

\* the task is cancelled while suspended: the await it is suspended in raises
\* CancelledError
Cancel(t) ==
    LET to == OnCancel(tpc[t]) IN
    /\ tpc[t] \in Suspended
    /\ cancels[t] < MaxCancels
    /\ cancels' = [cancels EXCEPT ![t] = @ + 1]
    /\ pending' = [pending EXCEPT ![t] = CancelledError]
    /\ work' = [work EXCEPT ![t] =
                   IF tpc[t] = "work" THEN [kind |-> "cancelled"] ELSE @]
    /\ tpc' = [tpc EXCEPT ![t] = to]
    /\ closeTask' = [closeTask EXCEPT ![t] =
                        IF to = "sess_exit" THEN "scheduled" ELSE @]
    /\ outcome' = [outcome EXCEPT ![t] =
                      IF to = "done" THEN Observed(CancelledError, result[t]) ELSE @]
    /\ UNCHANGED <<engine, AsyncSessionLocal, engines, session, result, cleanupFailed, notTx>>

NextTx ==
    \/ \E t \in Tasks : Acquire(t)
    \/ \E t \in Tasks, inInit \in BOOLEAN : AcquireFails(t, inInit)
    \/ \E t \in Tasks, v \in Values : WorkReturns(t, v)
    \/ \E t \in Tasks, e \in WorkErrors : WorkRaises(t, e)
    \/ \E t \in Tasks : CommitOk(t)
    \/ \E t \in Tasks : CommitFails(t)
    \/ \E t \in Tasks, ok \in BOOLEAN : EitRollback(t, ok)
    \/ \E t \in Tasks, ok \in BOOLEAN : GdsRollback(t, ok)
    \/ \E t \in Tasks : GdsClose(t)
    \/ \E t \in Tasks : CloseTaskRun(t)
    \/ \E t \in Tasks : Finish(t)
    \/ \E t \in Tasks : Cancel(t)

\* ------------------------------------------------------ execute_with_retry
\* what one invocation of func does: return a value, raise an Exception, or
\* raise a BaseException that is no Exception
Behaviours ==
    {[kind |-> "ok", val |-> v] : v \in Values}
        \cup {[kind |-> "exc", val |-> e] : e \in WorkErrors}
        \cup {[kind |-> "base", val |-> CancelledError]}

RECURSIVE Pow2(_)
\* 2 ** attempt
Pow2(n) == IF n <= 0 THEN 1 ELSE 2 * Pow2(n - 1)

\* the task that runs execute_with_retry and what it awaits
RetryTask == "t1"

InitRetry(on, f) ==
    /\ max_retries \in (IF on THEN (0 - 1)..MaxRetries ELSE {0})
    /\ plan \in (IF on /\ f = "plan" THEN [1..MaxRetries -> Behaviours]
                 ELSE {[k \in 1..MaxRetries |-> [kind |-> "ok", val |-> "v1"]]})
    /\ func = f
    /\ entered = 0
    /\ rpc = IF on THEN "start" ELSE "off"
    /\ attempt = 0
    /\ last_exception = NoExc
    /\ invocations = 0
    /\ sleeps = <<>>
    /\ routcome = NoOutcome

\* variant of InRange for a loop that tests after its body
InRangeDoWhile(a, max) == a < max \/ a = 0

\* variant of InRange for range(max_retries - 1)
InRangeShort(a, max) == a < max - 1

\* for attempt in range(max_retries): is there an iteration for this value
InRange(a, max) == a < max

\* raise last_exception; `raise None` is a TypeError
RaiseLast(exc) ==
    [kind |-> "raised", val |-> IF exc = NoExc THEN "TypeError" ELSE exc]

\* last_exception = None; the loop starts: func is invoked for attempt 0, or
\* the loop body never runs and `raise last_exception` is reached
RetryStart ==
    /\ rpc = "start"
    /\ last_exception' = NoExc
    /\ attempt' = 0
    /\ IF InRange(0, max_retries)
       THEN /\ rpc' = "call"
            /\ invocations' = invocations + 1
            /\ UNCHANGED routcome
       ELSE /\ rpc' = "done"
            /\ routcome' = RaiseLast(NoExc)
            /\ UNCHANGED invocations
    /\ UNCHANGED <<max_retries, plan, func, entered, sleeps, notRetry>>

\* func(*args, **kwargs) with func = execute_in_transaction: every invocation
\* is a new coroutine of execute_in_transaction, with a session of its own
EitEnter ==
    LET t == RetryTask IN
    /\ func = "execute_in_transaction"
    /\ rpc = "call"
    /\ entered < invocations
    /\ entered' = entered + 1
    /\ tpc' = [tpc EXCEPT ![t] = "start"]
    /\ session' = [session EXCEPT ![t] = [commits |-> 0, rollbacks |-> 0, closes |-> 0]]
    /\ result' = [result EXCEPT ![t] = NoExc]
    /\ pending' = [pending EXCEPT ![t] = NoExc]
    /\ closeTask' = [closeTask EXCEPT ![t] = "none"]
    /\ outcome' = [outcome EXCEPT ![t] = NoOutcome]
    /\ work' = [work EXCEPT ![t] = NoOutcome]
    /\ cancels' = [cancels EXCEPT ![t] = 0]
    /\ cleanupFailed' = [cleanupFailed EXCEPT ![t] = FALSE]
    /\ UNCHANGED <<engine, AsyncSessionLocal, engines, rlVars, poolVars, lcVars, dmVars,
                   max_retries, plan, func, rpc, attempt, last_exception, invocations, sleeps, routcome>>

\* what the awaited coroutine of execute_in_transaction did, as a behaviour
FromOutcome(o) ==
    IF o.kind = "returned" THEN [kind |-> "ok", val |-> o.val]
    ELSE [kind |-> IF o.val = CancelledError THEN "base" ELSE "exc", val |-> o.val]

\* await func(*args, **kwargs): what the invocation in progress does
Current ==
    IF func = "plan" THEN plan[invocations]
    ELSE IF entered = invocations /\ tpc[RetryTask] = "done"
         THEN FromOutcome(outcome[RetryTask])
         ELSE [kind |-> "running"]

\* variant of Caught that retries only the error E1
CaughtTransient(b) == b.kind = "exc" /\ b.val = "E1"

\* variant of Caught that does not retry a failure to acquire a session
CaughtButAcquire(b) == b.kind = "exc" /\ b.val # AcquireError

\* except Exception as e: the clause catches the Exception subclasses only
Caught(b) == b.kind = "exc"

\* return await func(*args, **kwargs): func returns
FuncReturns ==
    /\ rpc = "call"
    /\ Current.kind = "ok"
    /\ rpc' = "done"
    /\ routcome' = [kind |-> "returned", val |-> Current.val]
    /\ UNCHANGED <<max_retries, plan, func, entered, attempt, last_exception,
                   invocations, sleeps, notRetry>>

\* variant of Assign that keeps the first exception
KeepFirst(old, e) == IF old = NoExc THEN e ELSE old

\* last_exception = e
Assign(old, e) == e

\* variant of SleepsAfter that sleeps after the final attempt too
SleepsAlways(a, max) == a < max

\* if attempt < max_retries - 1:
SleepsAfter(a, max) == a < max - 1

\* func raises an Exception: except Exception as e: last_exception = e;
\* sleep 2 ** attempt if attempts remain; otherwise `continue` ends the loop
\* and `raise last_exception` is reached
FuncRaises ==
    LET e == Assign(last_exception, Current.val) IN
    /\ rpc = "call"
    /\ Caught(Current)
    /\ last_exception' = e
    /\ IF SleepsAfter(attempt, max_retries)
       THEN /\ rpc' = "sleep"
            /\ sleeps' = Append(sleeps, Pow2(attempt))
            /\ UNCHANGED <<attempt, routcome>>
       ELSE /\ IF InRange(attempt + 1, max_retries)
               THEN /\ rpc' = "call"
                    /\ UNCHANGED routcome
               ELSE /\ rpc' = "done"
                    /\ routcome' = RaiseLast(e)
            /\ attempt' = attempt + 1
            /\ UNCHANGED sleeps
    /\ invocations' = IF rpc' = "call" THEN invocations + 1 ELSE invocations
    /\ UNCHANGED <<max_retries, plan, func, entered, notRetry>>

\* func raises a BaseException that is no Exception: `except Exception` does
\* not catch it and it leaves execute_with_retry
FuncRaisesBase ==
    /\ rpc = "call"
    /\ Current.kind \in {"exc", "base"}
    /\ ~Caught(Current)
    /\ rpc' = "done"
    /\ routcome' = [kind |-> "raised", val |-> Current.val]
    /\ UNCHANGED <<max_retries, plan, func, entered, attempt, last_exception,
                   invocations, sleeps, notRetry>>

\* await asyncio.sleep(...) completes; continue: the next iteration invokes func
SleepDone ==
    /\ rpc = "sleep"
    /\ attempt' = attempt + 1
    /\ IF InRange(attempt + 1, max_retries)
       THEN /\ rpc' = "call"
            /\ invocations' = invocations + 1
            /\ UNCHANGED routcome
       ELSE /\ rpc' = "done"
            /\ routcome' = RaiseLast(last_exception)
            /\ UNCHANGED invocations
    /\ UNCHANGED <<max_retries, plan, func, entered, last_exception, sleeps, notRetry>>

NextRetry ==
    \/ RetryStart
    \/ FuncReturns
    \/ FuncRaises
    \/ FuncRaisesBase
    \/ SleepDone

\* execute_with_retry(execute_in_transaction, max_retries, work)
NextRetryTx ==
    \/ NextRetry
    \/ EitEnter
    \/ NextTx

\* ---------------------------------------------------------- connection pool
\* init_db hands pool_size, max_overflow and pool_timeout to create_async_engine;
\* the pool itself is the engine's.  Its behaviour below is the one the three
\* parameters stand for: pool_size connections are kept, max_overflow more may
\* be opened, and a checkout that finds all of them in use waits for at most
\* pool_timeout seconds.
InitPool(on) ==
    /\ pool_size \in (IF on THEN 1..MaxPoolSize ELSE {1})
    /\ max_overflow \in (IF on THEN 0..MaxOverflow ELSE {0})
    /\ pool_timeout \in (IF on THEN 1..MaxPoolTimeout ELSE {1})
    /\ checkedout = 0
    /\ ppc = [s \in Sessions |-> IF on THEN "idle" ELSE "off"]
    /\ waited = [s \in Sessions |-> 0]

\* variant of PoolCapacity that opens one connection more than configured
PoolCapacityPlusOne(size, overflow) == size + overflow + 1

\* pool_size=..., max_overflow=...: the connections the pool may have open
PoolCapacity(size, overflow) == size + overflow

poolConfig == <<pool_size, max_overflow, pool_timeout>>

\* a session needs its connection: it gets one at once when the pool has one
\* left, and waits otherwise
Checkout(s) ==
    /\ ppc[s] \in {"idle", "failed"}
    /\ IF checkedout < PoolCapacity(pool_size, max_overflow)
       THEN /\ ppc' = [ppc EXCEPT ![s] = "hold"]
            /\ checkedout' = checkedout + 1
       ELSE /\ ppc' = [ppc EXCEPT ![s] = "wait"]
            /\ UNCHANGED checkedout
    /\ waited' = [waited EXCEPT ![s] = 0]
    /\ UNCHANGED <<poolConfig, notPool>>

\* a waiting session gets a connection that was returned
Granted(s) ==
    /\ ppc[s] = "wait"
    /\ checkedout < PoolCapacity(pool_size, max_overflow)
    /\ ppc' = [ppc EXCEPT ![s] = "hold"]
    /\ checkedout' = checkedout + 1
    /\ UNCHANGED <<waited, poolConfig, notPool>>

\* pool_timeout=...: a session that has waited pool_timeout seconds gives up
\* with a TimeoutError
TimesOut(s) ==
    /\ ppc[s] = "wait"
    /\ waited[s] >= pool_timeout
    /\ ppc' = [ppc EXCEPT ![s] = "failed"]
    /\ UNCHANGED <<checkedout, waited, poolConfig, notPool>>

\* the session is closed: its connection returns to the pool
Release(s) ==
    /\ ppc[s] = "hold"
    /\ ppc' = [ppc EXCEPT ![s] = "idle"]
    /\ checkedout' = checkedout - 1
    /\ UNCHANGED <<waited, poolConfig, notPool>>

\* one second passes for the sessions that wait
PoolTick ==
    /\ \E s \in Sessions : ppc[s] = "wait" /\ waited[s] < pool_timeout
    /\ waited' = [s \in Sessions |->
                     IF ppc[s] = "wait" /\ waited[s] < pool_timeout
                     THEN waited[s] + 1 ELSE waited[s]]
    /\ UNCHANGED <<checkedout, ppc, poolConfig, notPool>>

NextPool ==
    \/ \E s \in Sessions : Checkout(s)
    \/ \E s \in Sessions : Granted(s)
    \/ \E s \in Sessions : TimesOut(s)
    \/ \E s \in Sessions : Release(s)
    \/ PoolTick

\* ------------------------------------------------- lifecycle of the globals
\* main.py's lifespan and, beside it, tasks that use or close the globals.
MaxOps == 2
Workers == {"w1", "w2"}
Procs == {"lifespan"} \cup Workers

InitLife(on) ==
    /\ lpc = [P \in Procs |-> IF ~on THEN "off" ELSE IF P = "lifespan" THEN "before" ELSE "idle"]
    /\ target = [P \in Procs |-> None]
    /\ ops = [w \in Workers |-> IF on THEN MaxOps ELSE 0]
    /\ trail = <<>>
    /\ staleSession = FALSE
    /\ staleClient = FALSE
    /\ dropped = {}

\* lifespan up to its yield: await init_db(); await init_redis().  Neither
\* holds an await, so startup is one step.  fail: the call that raises
\* ("none": startup succeeds); nothing catches it, the lifespan ends there.
Startup(fail) ==
    LET d == IF fail = "init_db"
             THEN [engine |-> engine, AsyncSessionLocal |-> AsyncSessionLocal,
                   engines |-> engines]
             ELSE InitDb(engine, AsyncSessionLocal, engines, "lifespan")
        r == IF fail = "none" THEN InitRedis(redis_client, clients, "lifespan")
             ELSE [redis_client |-> redis_client, clients |-> clients]
    IN  /\ lpc["lifespan"] = "before"
        \* a call that returns at once because the global is set cannot raise
        /\ fail = "init_db" => engine = None
        /\ fail = "init_redis" => redis_client = None
        /\ fail # "init_db" /\ engine = None => CanCreate(engines)
        /\ fail = "none" /\ redis_client = None => CanCreate(clients)
        /\ engine' = d.engine
        /\ AsyncSessionLocal' = d.AsyncSessionLocal
        /\ engines' = d.engines
        /\ redis_client' = r.redis_client
        /\ clients' = r.clients
        /\ trail' = IF fail = "init_db" THEN trail
                    ELSE IF fail = "init_redis" THEN <<"init_db">>
                    ELSE <<"init_db", "init_redis">>
        /\ lpc' = [lpc EXCEPT !["lifespan"] = IF fail = "none" THEN "running"
                                              ELSE "startup_failed"]
        /\ UNCHANGED <<target, ops, staleSession, staleClient, dropped>>
        /\ UNCHANGED <<store, max_requests, window_seconds, budget, pc, ident,
                       current_count, ret, history, pre, faulted>>
        /\ UNCHANGED <<tpc, session, result, pending, closeTask, outcome, work, cancels,
                       cleanupFailed, rtVars, poolVars, dmVars>>

\* where a process is once its close_db() has returned
AfterCloseDb(P) == IF P = "lifespan" THEN "stopped" ELSE "idle"

\* close_db() up to its await: if engine is not None: await engine.dispose()
CloseDbStart(P, e) ==
    IF e # None THEN [lpc |-> "db_disposing", target |-> e, returned |-> <<>>]
    ELSE [lpc |-> AfterCloseDb(P), target |-> None, returned |-> <<"close_db">>]

\* where a process goes once its close_redis() has returned: the lifespan
\* goes on to close_db() without an await between
AfterCloseRedis(P, e) ==
    IF P = "lifespan"
    THEN [CloseDbStart(P, e) EXCEPT !.returned = <<"close_redis">> \o @]
    ELSE [lpc |-> "idle", target |-> None, returned |-> <<>>]

\* close_redis() up to its await: if redis_client is not None: await redis_client.close()
CloseRedisStart(P, c, e) ==
    IF c # None THEN [lpc |-> "redis_closing", target |-> c, returned |-> <<>>]
    ELSE AfterCloseRedis(P, e)

\* the calls of the lifespan that returned, in order
Trail(P, returned) == IF P = "lifespan" THEN trail \o returned ELSE trail

\* a process may start a call of its own
Ready(P) ==
    IF P = "lifespan" THEN lpc[P] = "running" ELSE lpc[P] = "idle" /\ ops[P] > 0

Spend(P) == IF P = "lifespan" THEN ops ELSE [ops EXCEPT ![P] = @ - 1]

lifeFrame == <<store, max_requests, window_seconds, budget, pc, ident, current_count, ret,
               history, pre, faulted, tpc, session, result, pending, closeTask, outcome,
               work, cancels, cleanupFailed, rtVars, poolVars, dmVars>>

\* a process calls close_redis(): the lifespan after its yield (shutdown), or
\* any other task
CloseRedisBegin(P) ==
    LET n == CloseRedisStart(P, redis_client, engine)
    IN  /\ Ready(P)
        /\ lpc' = [lpc EXCEPT ![P] = n.lpc]
        /\ target' = [target EXCEPT ![P] = n.target]
        /\ trail' = Trail(P, n.returned)
        /\ ops' = Spend(P)
        /\ UNCHANGED <<redis_client, clients, engine, AsyncSessionLocal, engines,
                       staleSession, staleClient, dropped, lifeFrame>>

\* await redis_client.close() has closed the client; the coroutine that
\* awaits it is resumed later (ClientClosed with ok), or close() raises and
\* close_redis ends with the global still set
ClientClosed(P, ok) ==
    /\ lpc[P] = "redis_closing"
    /\ clients' = IF ok THEN [clients EXCEPT ![target[P]].state = "closed"] ELSE clients
    /\ lpc' = [lpc EXCEPT ![P] = IF ok THEN "redis_closed"
                                 ELSE IF P = "lifespan" THEN "shutdown_failed" ELSE "idle"]
    /\ target' = [target EXCEPT ![P] = IF ok THEN @ ELSE None]
    /\ UNCHANGED <<redis_client, engine, AsyncSessionLocal, engines, trail, ops,
                   staleSession, staleClient, dropped, lifeFrame>>

\* close_redis() after its await: redis_client = None
CloseRedisEnd(P) ==
    LET n == AfterCloseRedis(P, engine)
    IN  /\ lpc[P] = "redis_closed"
        /\ redis_client' = None
        /\ dropped' = IF redis_client # None /\ clients[redis_client].state # "closed"
                      THEN dropped \cup {"redis"} ELSE dropped
        /\ lpc' = [lpc EXCEPT ![P] = n.lpc]
        /\ target' = [target EXCEPT ![P] = n.target]
        /\ trail' = Trail(P, n.returned)
        /\ UNCHANGED <<clients, engine, AsyncSessionLocal, engines, ops,
                       staleSession, staleClient, lifeFrame>>

\* a task other than the lifespan calls close_db()
CloseDbBegin(P) ==
    LET n == CloseDbStart(P, engine)
    IN  /\ P \in Workers
        /\ Ready(P)
        /\ lpc' = [lpc EXCEPT ![P] = n.lpc]
        /\ target' = [target EXCEPT ![P] = n.target]
        /\ ops' = Spend(P)
        /\ UNCHANGED <<redis_client, clients, engine, AsyncSessionLocal, engines, trail,
                       staleSession, staleClient, dropped, lifeFrame>>

\* await engine.dispose() has disposed of the engine; the coroutine that
\* awaits it is resumed later (EngineDisposed with ok), or dispose() raises
\* and close_db ends with the globals still set
EngineDisposed(P, ok) ==
    /\ lpc[P] = "db_disposing"
    /\ engines' = IF ok THEN [engines EXCEPT ![target[P]].state = "disposed"] ELSE engines
    /\ lpc' = [lpc EXCEPT ![P] = IF ok THEN "db_disposed"
                                 ELSE IF P = "lifespan" THEN "shutdown_failed" ELSE "idle"]
    /\ target' = [target EXCEPT ![P] = IF ok THEN @ ELSE None]
    /\ UNCHANGED <<redis_client, clients, engine, AsyncSessionLocal, trail, ops,
                   staleSession, staleClient, dropped, lifeFrame>>

\* close_db() after its await: engine = None; AsyncSessionLocal = None
CloseDbEnd(P) ==
    /\ lpc[P] = "db_disposed"
    /\ engine' = None
    /\ AsyncSessionLocal' = None
    /\ dropped' = IF engine # None /\ engines[engine].state # "disposed"
                  THEN dropped \cup {"db"} ELSE dropped
    /\ lpc' = [lpc EXCEPT ![P] = AfterCloseDb(P)]
    /\ target' = [target EXCEPT ![P] = None]
    /\ trail' = Trail(P, <<"close_db">>)
    /\ UNCHANGED <<redis_client, clients, engines, ops, staleSession, staleClient,
                   lifeFrame>>

\* a task enters get_db_session() (or get_db()): init_db if the factory is
\* None, then session = AsyncSessionLocal(): a session of the factory's engine
GetDbSession(w) ==
    LET g == GetDbSessionInit("get_db_session")
    IN  /\ Ready(w)
        /\ AsyncSessionLocal = None /\ engine = None => CanCreate(engines)
        /\ g.AsyncSessionLocal # None
        /\ engine' = g.engine
        /\ AsyncSessionLocal' = g.AsyncSessionLocal
        /\ engines' = g.engines
        /\ staleSession' = (staleSession \/ g.engines[g.AsyncSessionLocal].state = "disposed")
        /\ ops' = Spend(w)
        /\ UNCHANGED <<redis_client, clients, lpc, target, trail, staleClient, dropped,
                       lifeFrame>>

\* a task calls get_redis() and is handed the client
GetRedisClient(w) ==
    LET g == GetRedisInit("get_redis")
    IN  /\ Ready(w)
        /\ redis_client = None => CanCreate(clients)
        /\ redis_client' = g.redis_client
        /\ clients' = g.clients
        /\ staleClient' = (staleClient \/ g.clients[g.redis_client].state = "closed")
        /\ ops' = Spend(w)
        /\ UNCHANGED <<engine, AsyncSessionLocal, engines, lpc, target, trail,
                       staleSession, dropped, lifeFrame>>

NextLife ==
    \/ \E fail \in {"none", "init_db", "init_redis"} : Startup(fail)
    \/ \E P \in Procs : CloseRedisBegin(P)
    \/ \E P \in Procs, ok \in BOOLEAN : ClientClosed(P, ok)
    \/ \E P \in Procs : CloseRedisEnd(P)
    \/ \E P \in Procs : CloseDbBegin(P)
    \/ \E P \in Procs, ok \in BOOLEAN : EngineDisposed(P, ok)
    \/ \E P \in Procs : CloseDbEnd(P)
    \/ \E w \in Workers : GetDbSession(w)
    \/ \E w \in Workers : GetRedisClient(w)

\* --------------------------------------------------------- DatabaseManager
\* One DatabaseManager instance, entered with `async with` by the tasks of
\* the behaviour.  self.session is a field of the instance, read again by
\* each statement of __aexit__.
NoSession == [made |-> FALSE, commits |-> 0, rollbacks |-> 0, closes |-> 0]

InitDm(tasks) ==
    /\ dm_session = None
    /\ dmSessions = [n \in 1..Cardinality(Tasks) |-> NoSession]
    /\ dmpc = [t \in Tasks |-> IF t \in tasks THEN "start" ELSE "off"]
    /\ dmOpened = [t \in Tasks |-> None]
    /\ dmTarget = [t \in Tasks |-> None]
    /\ dmBody = [t \in Tasks |-> "none"]
    /\ dmOutcome = [t \in Tasks |-> NoOutcome]

dmFrame == <<rlVars, tpc, session, result, pending, closeTask, outcome, work, cancels,
             cleanupFailed, rtVars, poolVars, lcVars>>

\* __aenter__: if AsyncSessionLocal is None: await init_db()
\*             self.session = AsyncSessionLocal(); return self.session
DmEnter(t) ==
    LET g == GetDbSessionInit("DatabaseManager")
        n == Cardinality({k \in DOMAIN dmSessions : dmSessions[k].made}) + 1
    IN  /\ dmpc[t] = "start"
        /\ AsyncSessionLocal = None /\ engine = None => CanCreate(engines)
        /\ engine' = g.engine
        /\ AsyncSessionLocal' = g.AsyncSessionLocal
        /\ engines' = g.engines
        /\ dmSessions' = [dmSessions EXCEPT ![n].made = TRUE]
        /\ dm_session' = n
        /\ dmOpened' = [dmOpened EXCEPT ![t] = n]
        /\ dmpc' = [dmpc EXCEPT ![t] = "body"]
        /\ UNCHANGED <<dmTarget, dmBody, dmOutcome, dmFrame>>

\* the body of the `async with` ends (raised: with an exception) and
\* __aexit__ runs up to its first await:
\*   if self.session: if exc_type is not None: await self.session.rollback()
\*                    else: await self.session.commit()
DmExit(t, raised) ==
    /\ dmpc[t] = "body"
    /\ dmBody' = [dmBody EXCEPT ![t] = IF raised THEN "raised" ELSE "returned"]
    /\ dmTarget' = [dmTarget EXCEPT ![t] = dm_session]
    /\ dmSessions' = [dmSessions EXCEPT
                          ![dm_session].rollbacks = IF raised THEN @ + 1 ELSE @,
                          ![dm_session].commits = IF raised THEN @ ELSE @ + 1]
    /\ dmpc' = [dmpc EXCEPT ![t] = IF raised THEN "rollback" ELSE "commit"]
    /\ UNCHANGED <<engine, AsyncSessionLocal, engines, dm_session, dmOpened, dmOutcome,
                   dmFrame>>

\* where __aexit__ goes when its commit or rollback has ended: on to
\* `await self.session.close()`, or out with the exception of the call
DmAfterCleanup(ok) == IF ok THEN "close" ELSE "done"

\* the commit or rollback __aexit__ awaits returns (ok) or raises; then
\*   await self.session.close()
\* is called on the session self.session holds now
DmCleanupDone(t, ok) ==
    LET next == DmAfterCleanup(ok)
        exc == IF ok THEN NoExc
               ELSE IF dmpc[t] = "commit" THEN CommitError ELSE RollbackError
    IN  /\ dmpc[t] \in {"commit", "rollback"}
        /\ dmpc' = [dmpc EXCEPT ![t] = next]
        /\ dmTarget' = [dmTarget EXCEPT ![t] = IF next = "close" THEN dm_session ELSE None]
        /\ dmSessions' = IF next = "close"
                         THEN [dmSessions EXCEPT ![dm_session].closes = @ + 1]
                         ELSE dmSessions
        /\ dmOutcome' = [dmOutcome EXCEPT ![t] = IF ok THEN @ ELSE Observed(exc, NoExc)]
        /\ UNCHANGED <<engine, AsyncSessionLocal, engines, dm_session, dmOpened, dmBody,
                       dmFrame>>

\* await self.session.close() returns: __aexit__ returns None, so an
\* exception of the body propagates to the caller of the `async with`
DmCloseDone(t) ==
    /\ dmpc[t] = "close"
    /\ dmpc' = [dmpc EXCEPT ![t] = "done"]
    /\ dmTarget' = [dmTarget EXCEPT ![t] = None]
    /\ dmOutcome' = [dmOutcome EXCEPT ![t] =
                         IF @ # NoOutcome THEN @
                         ELSE IF dmBody[t] = "raised" THEN [kind |-> "raised", val |-> "E1"]
                         ELSE [kind |-> "returned", val |-> NoExc]]
    /\ UNCHANGED <<engine, AsyncSessionLocal, engines, dm_session, dmSessions, dmOpened,
                   dmBody, dmFrame>>

NextDm ==
    \/ \E t \in Tasks : DmEnter(t)
    \/ \E t \in Tasks, raised \in BOOLEAN : DmExit(t, raised)
    \/ \E t \in Tasks, ok \in BOOLEAN : DmCleanupDone(t, ok)
    \/ \E t \in Tasks : DmCloseDone(t)

\* ---------------------------------------------------------- specifications
InitConcurrentCallers ==
    /\ InitRL([p \in Callers |-> 1], 1..MaxRequests, 1..MaxWindow)
    /\ InitTx({})
    /\ InitRetry(FALSE, "plan")
    /\ InitPool(FALSE)
    /\ InitLife(FALSE)
    /\ InitDm({})

InitOneCaller ==
    /\ InitRL([p \in Callers |-> IF p = 1 THEN MaxCalls ELSE 0],
              1..MaxRequests, 1..MaxWindow)
    /\ InitTx({})
    /\ InitRetry(FALSE, "plan")
    /\ InitPool(FALSE)
    /\ InitLife(FALSE)
    /\ InitDm({})

InitTasks ==
    /\ InitRL([p \in Callers |-> 0], {1}, {1})
    /\ InitTx(Tasks)
    /\ InitRetry(FALSE, "plan")
    /\ InitPool(FALSE)
    /\ InitLife(FALSE)
    /\ InitDm({})

InitOneRetry ==
    /\ InitRL([p \in Callers |-> 0], {1}, {1})
    /\ InitTx({})
    /\ InitRetry(TRUE, "plan")
    /\ InitPool(FALSE)
    /\ InitLife(FALSE)
    /\ InitDm({})

InitRetryOfTx ==
    /\ InitRL([p \in Callers |-> 0], {1}, {1})
    /\ InitTx({})
    /\ InitRetry(TRUE, "execute_in_transaction")
    /\ InitPool(FALSE)
    /\ InitLife(FALSE)
    /\ InitDm({})

InitSessions ==
    /\ InitRL([p \in Callers |-> 0], {1}, {1})
    /\ InitTx({})
    /\ InitRetry(FALSE, "plan")
    /\ InitPool(TRUE)
    /\ InitLife(FALSE)
    /\ InitDm({})

InitLifecycle ==
    /\ InitRL([p \in Callers |-> 0], {1}, {1})
    /\ InitTx({})
    /\ InitRetry(FALSE, "plan")
    /\ InitPool(FALSE)
    /\ InitLife(TRUE)
    /\ InitDm({})

\* the lifespan of the application and two tasks that use and close the globals
SpecLife == InitLifecycle /\ [][NextLife]_vars

InitManager ==
    /\ InitRL([p \in Callers |-> 0], {1}, {1})
    /\ InitTx({})
    /\ InitRetry(FALSE, "plan")
    /\ InitPool(FALSE)
    /\ InitLife(FALSE)
    /\ InitDm(Tasks)

\* two tasks that enter one DatabaseManager instance
SpecDm == InitManager /\ [][NextDm]_vars

\* concurrent callers of the rate limiter, one call each
SpecRL == InitConcurrentCallers /\ [][NextRL]_vars

\* concurrent callers, one call each, of a rate limiter whose store can fail
SpecRLFaults == InitConcurrentCallers /\ [][NextRLFaults]_vars

\* one caller of the rate limiter: its calls are sequential
SpecSeq == InitOneCaller /\ [][NextRL]_vars

\* concurrent tasks, each one call of execute_in_transaction
SpecTx == InitTasks /\ [][NextTx]_vars

\* the event loop runs a task that can run
SpecTxFair == InitTasks /\ [][NextTx]_vars /\ WF_vars(NextTx)

\* one call of execute_with_retry
SpecRetry == InitOneRetry /\ [][NextRetry]_vars

\* one call of execute_with_retry whose func is execute_in_transaction
SpecRetryTx == InitRetryOfTx /\ [][NextRetryTx]_vars

\* sessions of one engine checking connections out of its pool; time passes
\* for a waiting session, and its timeout fires when it is due
SpecPool ==
    /\ InitSessions
    /\ [][NextPool]_vars
    /\ WF_vars(PoolTick)
    /\ \A s \in Sessions : WF_vars(TimesOut(s))

\* --------------------------------------------- transactional executor claims
Ended(t) == tpc[t] = "done" /\ closeTask[t] # "scheduled"

\* C2: a call whose unit of work returned and whose commit succeeded (nothing
\* cancelled) ends with its session committed once, never rolled back and
\* closed once.
C2_CommitOnceCloseOnce ==
    \A t \in Tasks :
        (Ended(t) /\ work[t].kind = "returned" /\ ~cleanupFailed[t] /\ cancels[t] = 0)
            => session[t] = [commits |-> 1, rollbacks |-> 0, closes |-> 1]

\* C3: a call whose unit of work raised (no rollback failed, nothing cancelled)
\* ends with its session rolled back once, never committed and closed once.
C3_RollbackOnceCloseOnce ==
    \A t \in Tasks :
        (Ended(t) /\ work[t].kind = "raised" /\ ~cleanupFailed[t] /\ cancels[t] = 0)
            => session[t] = [commits |-> 0, rollbacks |-> 1, closes |-> 1]

\* C4: with no cancellation, a call whose unit of work returned v and whose
\* commit succeeded returns v, and a call whose unit of work raised E raises E
\* to its caller.
C4_ResultOrSameError ==
    \A t \in Tasks :
        (tpc[t] = "done" /\ cancels[t] = 0) =>
            /\ (work[t].kind = "returned" /\ session[t].commits = 1)
                   => outcome[t] = [kind |-> "returned", val |-> work[t].val]
            /\ work[t].kind = "raised"
                   => outcome[t] = [kind |-> "raised", val |-> work[t].val]

\* C5: a session that was acquired is eventually closed, whatever the unit of
\* work does and wherever the task is cancelled.
C5_AcquiredSessionClosed ==
    \A t \in Tasks : [](Acquired(t) => <>(session[t].closes > 0))

\* C5 witness: a task cancelled as often as the bound allows has ended and its
\* session is closed.
C5_Witness ==
    \E t \in Tasks :
        /\ tpc[t] = "done"
        /\ cancels[t] = MaxCancels
        /\ outcome[t] = [kind |-> "raised", val |-> CancelledError]
        /\ session[t].closes > 0

\* --------------------------------------------------------------- retry claims
AllFail == \A k \in 1..max_retries : plan[k].kind = "exc"

FirstSuccess(k) ==
    /\ plan[k].kind = "ok"
    /\ \A j \in 1..(k - 1) : plan[j].kind = "exc"

\* C6: with max_retries >= 1 and a function whose every invocation raises an
\* Exception, the helper ends having invoked it max_retries times and raises
\* the exception of the last invocation.
C6_AllFailLastError ==
    (rpc = "done" /\ max_retries >= 1 /\ AllFail) =>
        /\ invocations = max_retries
        /\ routcome = [kind |-> "raised", val |-> plan[max_retries].val]

\* C6 witness: such a run ended, and the first and the last invocation raised
\* different exceptions.
C6_Witness ==
    /\ rpc = "done"
    /\ max_retries = MaxRetries
    /\ AllFail
    /\ plan[1].val # plan[max_retries].val
    /\ invocations = max_retries

\* C7: when the function raises Exceptions on its first k-1 invocations and
\* returns on the k-th, k <= max_retries, it is never invoked more than k times
\* and the helper ends after k invocations returning the k-th result.
C7_SucceedsOnKth ==
    \A k \in 1..max_retries :
        FirstSuccess(k) =>
            /\ invocations <= k
            /\ rpc = "done" =>
                   /\ invocations = k
                   /\ routcome = [kind |-> "returned", val |-> plan[k].val]

\* C7 witness: a run that failed max_retries - 1 times and then succeeded.
C7_Witness ==
    /\ rpc = "done"
    /\ max_retries = MaxRetries
    /\ FirstSuccess(max_retries)
    /\ routcome.kind = "returned"

\* ------------------------------------------------------- rate limiter claims

\* C1: with concurrent callers on one identifier and no expiry of its key, at
\* most max_requests calls are admitted and the stored count never exceeds
\* max_requests.
C1_AtMostMaxAdmitted ==
    \A i \in Identifiers :
        ~expiredOnce[i] =>
            /\ admitted[i] <= max_requests
            /\ store[Key(i)].count <= max_requests

\* C8: sequential calls inside the first window: the n-th call of is_allowed
\* returns True exactly when n <= max_requests, and get_remaining after
\* max_requests admitted calls returns 0.
C8_FirstMaxRequestsAdmitted ==
    \A p \in Callers :
        /\ (ret[p].op = "is_allowed" /\ ~expiredOnce[ret[p].id])
               => (ret[p].val = (ret[p].idx <= max_requests))
        /\ (ret[p].op = "get_remaining" /\ ret[p].fresh
                /\ ret[p].max = max_requests
                /\ ret[p].admitted = max_requests)
               => ret[p].val = 0

\* C8 witness: max_requests calls were admitted, one more was rejected, and
\* get_remaining then returned 0, all before any expiry.
C8_Witness ==
    \E p \in Callers :
        /\ ret[p].op = "get_remaining"
        /\ ret[p].fresh
        /\ ret[p].max = max_requests
        /\ ret[p].admitted = max_requests
        /\ completed[ret[p].id] = max_requests + 1
        /\ ret[p].val = 0

\* C9: an is_allowed call that starts when the identifier's window was
\* exhausted and window_seconds have passed since its last admitted call is
\* admitted and leaves the counter at 1.
C9_AdmittedAfterWindow ==
    \A p \in Callers :
        (ret[p].op = "is_allowed" /\ ret[p].pre.reset)
            => (ret[p].val /\ ret[p].count = 1)

\* C9 witness: such a call returned, and a call had been rejected while the
\* window ran out.
C9_Witness ==
    \E p \in Callers :
        /\ ret[p].op = "is_allowed"
        /\ ret[p].pre.reset
        /\ ret[p].pre.rejects
        /\ ret[p].val

\* C10: the step in which an is_allowed call returns False is its read of the
\* counter (no write of the call came before it) and leaves the whole store,
\* counts and expiries, unchanged.
C10_RejectedCallNoMutation ==
    [][\A p \in Callers :
          (ret'[p] # ret[p] /\ ret'[p].op = "is_allowed" /\ ~ret'[p].val)
              => (store' = store /\ pc[p] = "ia_get"
                  /\ Rejects(store[Key(ident[p])].count, max_requests))]_vars

\* C10 witness: a call was rejected while its key was live with an expiry.
C10_Witness ==
    \E p \in Callers :
        /\ ret[p].op = "is_allowed"
        /\ ~ret[p].val
        /\ store[Key(ret[p].id)].count >= max_requests
        /\ store[Key(ret[p].id)].ttl > 0

\* a step of the get_remaining call of caller p
GetRemainingStep(p) ==
    /\ pc'[p] # pc[p]
    /\ pc[p] \in {"gr_redis", "gr_get"} \/ pc'[p] \in {"gr_redis", "gr_get"}

\* C11: every step of a get_remaining call leaves the store (all counts and
\* expiries, so no key is created) unchanged, and the call returns
\* max_requests - count when the stored count (0 for a missing or expired key)
\* is below its max_requests argument and 0 otherwise: never a negative number.
C11_GetRemainingReadOnly ==
    [][\A p \in Callers :
          GetRemainingStep(p) =>
              /\ store' = store
              /\ pc[p] = "gr_get" =>
                     LET n == store[Key(ident[p])].count
                         m == ret'[p].max
                     IN  /\ ret'[p].op = "get_remaining"
                         /\ ret'[p].val >= 0
                         /\ ret'[p].val = IF n < m THEN m - n ELSE 0]_vars

\* C11 witness: get_remaining returned 0 for a key whose count is above the
\* max_requests argument of the call, and the key is still there.
C11_Witness ==
    \E p \in Callers :
        /\ ret[p].op = "get_remaining"
        /\ store[Key(ret[p].id)].count > ret[p].max
        /\ ret[p].val = 0

\* ------------------------------------------------------ retry claims (cont.)

\* C12: the k-th sleep of a call lasts 2^(k-1): it follows the failure of
\* attempt k-1 (counted from 0) and comes before attempt k. The helper sleeps
\* only after a failed attempt that is not the last one: while it sleeps the
\* sleeps equal the invocations, and while func runs or after the call ended
\* (with a result or with the final failure) there is one sleep less than
\* invocations. A call whose max_retries attempts all fail ends after
\* max_retries - 1 sleeps.
C12_BackoffSleeps ==
    /\ sleeps = SubSeq(<<1, 2, 4, 8, 16>>, 1, Len(sleeps))
    /\ rpc = "sleep" =>
           /\ Len(sleeps) = invocations
           /\ invocations < max_retries
           /\ plan[invocations].kind = "exc"
    /\ (rpc \in {"call", "done"} /\ invocations >= 1) =>
           Len(sleeps) = invocations - 1
    /\ (rpc = "done" /\ max_retries >= 1 /\ AllFail) =>
           Len(sleeps) = max_retries - 1

\* C12 witness: a call with the largest max_retries whose attempts all failed
\* has ended: it slept max_retries - 1 times, the last time for more than 1.
C12_Witness ==
    /\ rpc = "done"
    /\ max_retries = MaxRetries
    /\ AllFail
    /\ Len(sleeps) = max_retries - 1
    /\ sleeps[Len(sleeps)] > 1

\* C13: whenever an attempt of execute_with_retry is over (the helper sleeps
\* or has ended), every invocation so far ran as a coroutine of
\* execute_in_transaction, and the session of the last one is released:
\* committed when the call returned, rolled back when the attempt failed in
\* its unit of work.
C13_AttemptsInEnvelope ==
    (rpc \in {"sleep", "done"} /\ invocations >= 1) =>
        /\ entered = invocations
        /\ Acquired(RetryTask) =>
               /\ session[RetryTask].closes > 0
               /\ routcome.kind = "returned" => session[RetryTask].commits > 0
               /\ (work[RetryTask].kind = "raised" /\ ~cleanupFailed[RetryTask])
                      => session[RetryTask].rollbacks > 0

\* the invocation in progress of execute_in_transaction has ended with a
\* failure to acquire its session
AcquireFailed == Current.kind = "exc" /\ Current.val = AcquireError

\* the step of execute_in_transaction in which the acquisition of its session
\* fails ends the call with that error, before the unit of work is invoked
SurfacedByExecutor ==
    \A t \in Tasks :
        (tpc[t] = "start" /\ tpc'[t] = "done") =>
            /\ outcome'[t] = [kind |-> "raised", val |-> AcquireError]
            /\ work'[t] = NoOutcome
            /\ session'[t] = [commits |-> 0, rollbacks |-> 0, closes |-> 0]

C16_RetriesEveryFailure ==
    (rpc = "done" /\ invocations >= 1 /\ plan[invocations].kind # "ok")
        => invocations = max_retries

\* C16 amended: every attempt before the last one made failed with an
\* Exception; a call ends on an attempt that raised an Exception only when
\* that attempt was the last of max_retries; an attempt raising a
\* BaseException that is no Exception (CancelledError) ends the call at once
\* with that error, without a retry.
C16_RetriesEveryException ==
    /\ \A j \in 1..(invocations - 1) : plan[j].kind = "exc"
    /\ (rpc = "done" /\ invocations >= 1) =>
           /\ plan[invocations].kind = "exc" =>
                  /\ invocations = max_retries
                  /\ routcome = [kind |-> "raised", val |-> plan[invocations].val]
           /\ plan[invocations].kind = "base" =>
                  /\ routcome = [kind |-> "raised", val |-> CancelledError]
                  /\ Len(sleeps) = invocations - 1

\* C16 witness: the first attempt raised the Exception E2 and was retried; the
\* second raised CancelledError with an attempt left, and the call ended.
C16_Witness ==
    /\ rpc = "done"
    /\ max_retries = MaxRetries
    /\ invocations = 2
    /\ plan[1] = [kind |-> "exc", val |-> "E2"]
    /\ plan[2].kind = "base"
    /\ routcome = [kind |-> "raised", val |-> CancelledError]

\* -------------------------------------------------- rate limiter claims (cont.)

\* C14: a call of is_allowed or get_remaining during which the store failed
\* (obtaining the client, the read, or the increment/expire) ends with the
\* error raised to its caller: it returns neither allowed nor not-allowed and
\* no quota number.
C14_StoreErrorSurfaced ==
    \A p \in Callers :
        (faulted[p] /\ pc[p] = "idle") =>
            /\ ret[p].op = "raised"
            /\ ret[p].call \in {"is_allowed", "get_remaining"}

\* C14 witness: an is_allowed call failed in its pipeline after the store had
\* applied it, and a get_remaining call failed too; both raised.
C14_Witness ==
    \E p, q \in Callers :
        /\ faulted[p] /\ ret[p].op = "raised" /\ ret[p].call = "is_allowed"
        /\ store[Key(ident[p])].count > 0
        /\ faulted[q] /\ ret[q].op = "raised" /\ ret[q].call = "get_remaining"

\* C17: the count of a key decreases in one step only: the store deletes the
\* key because its expiry is reached (count back to 0, no step of a caller).
\* No step of is_allowed or get_remaining lowers a count or deletes a key.
C17_CountNeverDecreases ==
    [][\A k \in Keys :
          store'[k].count < store[k].count =>
              /\ pc' = pc
              /\ Expired(store, k)
              /\ store'[k] = NoKey]_vars

\* C17 witness: a call was admitted for an identifier, its key expired, and a
\* get_remaining call after that returned the whole quota.
C17_Witness ==
    \E p \in Callers :
        /\ ret[p].op = "get_remaining"
        /\ ~ret[p].fresh
        /\ admitted[ret[p].id] > 0
        /\ ret[p].val = ret[p].max

\* C18: a step that increments the count of a live key leaves its expiry
\* where it was: the end of the current window does not move.
C18_ExpiryOnlyAtCreation ==
    [][\A k \in Keys :
          (store[k].count > 0 /\ store'[k].count > store[k].count)
              => store'[k].ttl = store[k].ttl]_vars

\* the schedules of one caller long enough for 2 * max_requests calls, with
\* fewer than window_seconds seconds in them
ScheduleLen == 2 * MaxRequests + MaxWindow - 1

Schedules ==
    {sch \in [1..ScheduleLen -> {"call", "tick"}] :
        Cardinality({k \in 1..ScheduleLen : sch[k] = "tick"}) < window_seconds}

\* the states the counter of u1 can be in when the schedule starts: no key, or
\* a live key at any point of its window
StartStores ==
    {[k \in Keys |-> NoKey]}
        \cup {[k \in Keys |-> IF k = Key("u1") THEN [count |-> c, ttl |-> t] ELSE NoKey] :
                  c \in 1..max_requests, t \in 1..window_seconds}

\* C19: there is an execution of one caller, from some state of the counter,
\* that spans less than window_seconds and in which 2 * max_requests calls
\* are admitted.
C19_BoundaryBurst ==
    \E s \in StartStores, sch \in Schedules :
        AdmittedBy(s, sch, 1) >= 2 * max_requests

\* ------------------------------------------------------------- pool claims

\* a step in which session s starts to wait, or gives up waiting
StartsToWait(s) == ppc[s] # "wait" /\ ppc'[s] = "wait"
GivesUp(s) == ppc[s] = "wait" /\ ppc'[s] = "failed"

\* C20: the sessions that hold a connection are the connections checked out
\* and never more than pool_size + max_overflow; a session starts to wait
\* only when that many are held, gives up only after pool_timeout seconds of
\* waiting, and a session that waits eventually holds a connection or has
\* given up.
C20_PoolBoundedAndTimed ==
    /\ [](/\ Cardinality({s \in Sessions : ppc[s] = "hold"}) = checkedout
          /\ checkedout <= pool_size + max_overflow)
    /\ [][\A s \in Sessions :
              /\ StartsToWait(s) => checkedout = pool_size + max_overflow
              /\ GivesUp(s) => waited[s] = pool_timeout]_vars
    /\ \A s \in Sessions : (ppc[s] = "wait") ~> (ppc[s] \in {"hold", "failed"})

\* C20 witness: with the pool exhausted by the other sessions, one session
\* waited pool_timeout seconds and gave up, and another one waits.
C20_Witness ==
    /\ checkedout = pool_size + max_overflow
    /\ \E s, u \in Sessions :
           /\ ppc[s] = "failed" /\ waited[s] = pool_timeout
           /\ ppc[u] = "wait"

\* ------------------------------------------------------------ further claims

\* C26: a call with max_retries <= 0 never invokes the function, and when it
\* has ended it has raised an error, not returned a result.
C26_NoAttemptsRaises ==
    max_retries <= 0 =>
        /\ invocations = 0
        /\ rpc # "call"
        /\ rpc = "done" => routcome.kind = "raised"

\* C26 witness: a call with a negative max_retries has ended with the
\* TypeError of `raise None`.
C26_Witness ==
    /\ max_retries < 0
    /\ rpc = "done"
    /\ invocations = 0
    /\ routcome = [kind |-> "raised", val |-> "TypeError"]

\* a rollback or a commit was issued for the session of t and raised
IssuedAndFailed(t) == cleanupFailed[t]

\* C22: without cancellation and with no failing rollback, an execution of
\* execute_in_transaction is acquire, work, one commit or one rollback,
\* release.  A commit completes only after the work returned and before any
\* rollback or close; a rollback completes only after the work raised or the
\* commit failed, before any close and never after a commit that succeeded;
\* and an execution that has ended issued exactly one of them.
C22_EnvelopeOrder ==
    /\ [][\A t \in Tasks :
              /\ session'[t].commits > session[t].commits =>
                     /\ work[t].kind = "returned"
                     /\ session[t] = [commits |-> 0, rollbacks |-> 0, closes |-> 0]
              /\ session'[t].rollbacks > session[t].rollbacks =>
                     /\ work[t].kind = "raised" \/ IssuedAndFailed(t)
                     /\ session[t].commits = 0
                     /\ session[t].closes = 0]_vars
    /\ [](\A t \in Tasks :
              (Ended(t) /\ Acquired(t) /\ cancels[t] = 0 /\ ~IssuedAndFailed(t))
                  => session[t].commits + session[t].rollbacks = 1)

\* C24: without cancellation, a call whose unit of work returned and whose
\* commit failed ends with its session rolled back and closed and raises the
\* commit's error: no result is returned.
C24_CommitFailurePropagated ==
    \A t \in Tasks :
        (tpc[t] = "done" /\ cancels[t] = 0 /\ work[t].kind = "returned"
             /\ session[t].commits = 0 /\ cleanupFailed[t]) =>
            /\ session[t].rollbacks >= 1
            /\ session[t].closes >= 1
            /\ outcome[t] = [kind |-> "raised", val |-> CommitError]

\* C23: no key exists without an expiry, whatever the interleaving of the
\* callers and wherever the store fails; and the step in which an is_allowed
\* call returns True raises the count of its key by exactly 1 and sets its
\* expiry to window_seconds.
C23_IncrementAndExpiryAtomic ==
    /\ [](\A k \in Keys : store[k].count > 0 => store[k].ttl > 0)
    /\ [][\A p \in Callers :
              (ret'[p] # ret[p] /\ ret'[p].op = "is_allowed" /\ ret'[p].val) =>
                  LET k == Key(ident[p])
                  IN  /\ store'[k].count = store[k].count + 1
                      /\ store'[k].ttl = window_seconds]_vars

\* C23 witness: a pipeline failed after the store had applied it, another
\* call on the same key was admitted, and the key holds both increments.
C23_Witness ==
    \E p, q \in Callers :
        /\ ret[p].op = "raised" /\ ret[p].call = "is_allowed"
        /\ ret[q].op = "is_allowed" /\ ret[q].val
        /\ ident[p] = ident[q]
        /\ store[Key(ident[p])].count = 2
        /\ store[Key(ident[p])].ttl > 0

\* C30: a step of a call for one identifier leaves the count and the expiry
\* of every other identifier unchanged, and a call for an identifier is
\* rejected only when max_requests calls for that same identifier were
\* admitted, whatever was called for the others.
C30_IdentifiersIndependent ==
    /\ [][\A p \in Callers :
              pc'[p] # pc[p] =>
                  \A j \in Identifiers \ {ident'[p]} : store'[Key(j)] = store[Key(j)]]_vars
    /\ [](\A p \in Callers :
              (ret[p].op = "is_allowed" /\ ~ret[p].val)
                  => admitted[ret[p].id] >= max_requests)

\* C30 witness: both identifiers have a live counter, and a call for one of
\* them was rejected while the other has requests left.
C30_Witness ==
    \E p \in Callers :
        /\ ret[p].op = "is_allowed" /\ ~ret[p].val
        /\ \E j \in Identifiers \ {ret[p].id} :
               /\ store[Key(j)].count > 0
               /\ store[Key(j)].count < max_requests
        /\ store[Key(ret[p].id)].count > 0

\* C21: the engine and the counter-store client are created only by the
\* lifespan of the host application: no engine was created by get_db_session
\* (the executor) and no client by get_redis (the rate limiter), whether the
\* call came before startup, while the application runs or after shutdown.
C21_OnlyLifespanInitialises ==
    /\ \A n \in Created(engines) : engines[n].by = "lifespan"
    /\ \A n \in Created(clients) : clients[n].by = "lifespan"

\* C27: the engine and the session factory are both set or both unset, and
\* the factory is bound to the engine that is set.  Initialisation is
\* idempotent: a step creates an engine (a client) only when the global is
\* None, creates one only, and leaves the global set to it.  So however many
\* first uses run concurrently (the lifespan's startup, get_db_session,
\* get_redis), one engine and one client exist until one has been closed.
C27_InitOnce ==
    /\ [](AsyncSessionLocal = engine)
    /\ []((\A n \in Created(engines) : engines[n].state = "live")
              => Cardinality(Created(engines)) <= 1)
    /\ []((\A n \in Created(clients) : clients[n].state = "live")
              => Cardinality(Created(clients)) <= 1)
    /\ [][/\ Created(engines') # Created(engines) =>
               /\ engine = None
               /\ Created(engines') = Created(engines) \cup {engine'}
          /\ Created(clients') # Created(clients) =>
               /\ redis_client = None
               /\ Created(clients') = Created(clients) \cup {redis_client'}]_vars

\* C27 witness: the lifespan has started and two tasks have each made two
\* calls that initialise on first use; one engine and one client exist.
C27_Witness ==
    /\ lpc["lifespan"] = "running"
    /\ \A w \in Workers : ops[w] = 0 /\ lpc[w] = "idle"
    /\ Created(engines) = {engine} /\ engines[engine].state = "live"
    /\ Created(clients) = {redis_client} /\ clients[redis_client].state = "live"
    /\ engines[engine].by = "get_db_session"

\* C28: under every interleaving of close_db with init_db / get_db_session,
\* and of close_redis with get_redis, the module clears a global only when
\* the object it holds has been disposed of, and no session is created from
\* an engine already disposed, no client handed out that is already closed.
C28_CloseRaceFree ==
    /\ dropped = {}
    /\ ~staleSession
    /\ ~staleClient

\* the lifespan has ended: after shutdown, or with the exception of a
\* startup or shutdown step
LifespanEnded == lpc["lifespan"] \in {"stopped", "startup_failed", "shutdown_failed"}

\* the calls of a lifespan in the order of main.py
LifespanOrder == <<"init_db", "init_redis", "close_redis", "close_db">>

\* C29: the lifespan starts the database, then Redis, and shuts down in the
\* reverse order, Redis then the database; and once the lifespan has ended,
\* every engine and client it initialised at startup has been closed, also
\* when a later startup step or the closing of the other resource failed.
C29_ReverseTeardown ==
    /\ \E k \in 0..Len(LifespanOrder) : trail = SubSeq(LifespanOrder, 1, k)
    /\ LifespanEnded =>
          /\ \A n \in Created(engines) :
                 engines[n].by = "lifespan" => engines[n].state = "disposed"
          /\ \A n \in Created(clients) :
                 clients[n].by = "lifespan" => clients[n].state = "closed"

\* C25: when a task has left its `async with DatabaseManager()` block, the
\* session its __aenter__ returned has had close called on it exactly once
\* and exactly one of commit (the body returned) or rollback (the body
\* raised), also when that commit or rollback raised and when another task
\* entered the same instance meanwhile.
C25_ManagerClosesOnce ==
    \A t \in Tasks :
        dmpc[t] = "done" =>
            LET s == dmSessions[dmOpened[t]]
            IN  /\ s.closes = 1
                /\ dmBody[t] = "returned" => s.commits = 1 /\ s.rollbacks = 0
                /\ dmBody[t] = "raised" => s.rollbacks = 1 /\ s.commits = 0

====
